---- MODULE Spec2Model ----
(***************************************************************************)
(* Model of call_this_when_done.py: the Environment Reporter               *)
(* (debug_git_environment) followed by the Workflow Runner                 *)
(* (auto_git_workflow), as run by the __main__ block.                      *)
(*                                                                         *)
(* Text is a sequence of one-character strings.  The external tool (git)   *)
(* is the environment: every invocation receives a response drawn from the *)
(* responses git can give to that argument vector.                         *)
(***************************************************************************)
EXTENDS Integers, Sequences, FiniteSets, TLC

VARIABLES
    pc,           \* control position of the process
    dbg_i,        \* index of the next entry of debug_commands (1-based)
    step_i,       \* index of the next entry of workflow_steps (1-based)
    results,      \* the ordered mapping `results` of auto_git_workflow
    invoked,      \* labels of the step functions invoked so far, in order
    calls,        \* argument vectors passed to run_git_command, in order
    log,          \* lines written by log_output, in order
    last,         \* response of the tool to the latest invocation
    exit_status   \* process exit status; -1 while the process runs

vars == <<pc, dbg_i, step_i, results, invoked, calls, log, last, exit_status>>

(***************************************************************************)
(* Bounds                                                                  *)
(***************************************************************************)
MaxFiles == 2     \* changed paths listed by `status --porcelain`
MaxLen == 10      \* length of the tool output in the extraction check

(***************************************************************************)
(* Text helpers (Python str methods used by the script)                    *)
(***************************************************************************)
Whitespace == {" ", "\t", "\n", "\r", "\f"}

RECURSIVE LStrip(_)
LStrip(s) ==
    IF s = <<>> THEN s
    ELSE IF Head(s) \in Whitespace THEN LStrip(Tail(s)) ELSE s

RECURSIVE RStrip(_)
RStrip(s) ==
    IF s = <<>> THEN s
    ELSE IF s[Len(s)] \in Whitespace THEN RStrip(SubSeq(s, 1, Len(s) - 1)) ELSE s

\* str.strip()
Strip(s) == RStrip(LStrip(s))

\* s[:n]
Take(s, n) == SubSeq(s, 1, IF Len(s) < n THEN Len(s) ELSE n)

\* needle in hay
Contains(needle, hay) ==
    \E i \in 0..(Len(hay) - Len(needle)) :
        SubSeq(hay, i + 1, i + Len(needle)) = needle

\* str.split(sep) for a one-character separator
RECURSIVE SplitAcc(_, _, _)
SplitAcc(s, sep, cur) ==
    IF s = <<>> THEN <<cur>>
    ELSE IF Head(s) = sep THEN <<cur>> \o SplitAcc(Tail(s), sep, <<>>)
    ELSE SplitAcc(Tail(s), sep, Append(cur, Head(s)))

Split(s, sep) == SplitAcc(s, sep, <<>>)

(***************************************************************************)
(* Python values stored in `results`                                       *)
(***************************************************************************)
None == [kind |-> "None"]
Bool(b) == [kind |-> "bool", b |-> b]
List(xs) == [kind |-> "list", items |-> xs]
Str(s) == [kind |-> "str", chars |-> s]
CompletedProcess(r) ==
    [kind |-> "CompletedProcess", returncode |-> r.returncode,
     stdout |-> r.stdout, stderr |-> r.stderr]

\* truth value of a Python object, as tested by `not result`
Truthy(v) ==
    CASE v.kind = "None" -> FALSE
      [] v.kind = "bool" -> v.b
      [] v.kind = "list" -> v.items # <<>>
      [] v.kind = "str" -> v.chars # <<>>
      [] OTHER -> TRUE

(***************************************************************************)
(* Log lines                                                               *)
(***************************************************************************)
Line(level, msg) == [level |-> level, msg |-> msg]
Info(msg) == Line("INFO", msg)
Warn(msg) == Line("WARN", msg)
Error(msg) == Line("ERROR", msg)

(***************************************************************************)
(* The external tool: what git can answer to an invocation                 *)
(***************************************************************************)
\* a response: found = FALSE is "no git binary on PATH" (FileNotFoundError)
Resp(rc, out, err) == [found |-> TRUE, returncode |-> rc, stdout |-> out, stderr |-> err]
NotFound == [found |-> FALSE, returncode |-> 0, stdout |-> <<>>, stderr |-> <<>>]
NoResp == [found |-> TRUE, returncode |-> 0, stdout |-> <<>>, stderr |-> <<>>]

NothingToCommit ==
    <<"n","o","t","h","i","n","g"," ","t","o"," ","c","o","m","m","i","t">>

\* texts git prints
TreeClean == NothingToCommit \o <<","," ","c","l","e","a","n","\n">>
OnBranchClean == <<"O","n"," ","m","a","i","n","\n">> \o TreeClean
Fatal == <<"f","a","t","a","l",":"," ","x","\n">>
NothingAdded == <<"n","o","t","h","i","n","g"," ","a","d","d","e","d"," ","t","o"," ",
                  "c","o","m","m","i","t","\n">>
BranchName == <<"m","a","i","n">>

Hex == <<"0","1","2","3","4","5","6","7","8","9","a","b","c","d","e","f">>

\* a full object name of n hex digits, followed by the newline git prints
ObjectName(n, k) == [i \in 1..n |-> Hex[((i * k) % 16) + 1]] \o <<"\n">>

\* `status --porcelain` listing n changed paths
RECURSIVE Porcelain(_)
Porcelain(n) ==
    IF n = 0 THEN <<>>
    ELSE Porcelain(n - 1) \o <<" ","M"," ", Hex[n + 10], "\n">>

\* the responses git can give to an argument vector
Responses(cmd) ==
    {NotFound} \cup
    CASE cmd[1] = "status" ->
            {Resp(0, Porcelain(n), <<>>) : n \in 0..MaxFiles} \cup {Resp(128, <<>>, Fatal)}
      [] cmd[1] = "commit" ->
            {Resp(0, <<"o","k","\n">>, <<>>),
             Resp(1, <<>>, TreeClean),
             Resp(1, OnBranchClean, <<>>),
             Resp(1, <<>>, NothingAdded),
             Resp(128, <<>>, Fatal)}
      [] cmd[1] = "rev-parse" /\ cmd[2] = "HEAD" ->
            {Resp(0, ObjectName(40, 7), <<>>), Resp(0, ObjectName(64, 3), <<>>),
             Resp(128, <<"H","E","A","D","\n">>, Fatal)}
      [] cmd[1] = "branch" /\ cmd[2] = "--show-current" ->
            {Resp(0, BranchName \o <<"\n">>, <<>>), Resp(0, <<>>, <<>>),
             Resp(128, <<>>, Fatal)}
      [] OTHER ->
            {Resp(0, <<>>, <<>>), Resp(128, <<>>, Fatal)}

(***************************************************************************)
(* run_git_command                                                         *)
(*                                                                         *)
(* The outcome of a call: exc is "none" (returned), "CalledProcessError"   *)
(* (raised to the caller) or "SystemExit" (sys.exit(1)); value is what was *)
(* returned; err is the response carried by the raised error; calls holds  *)
(* the invocations made, each with git's response, and log the lines       *)
(* logged during the call.                                                 *)
(***************************************************************************)
Outcome(exc, value, err, cs, lg) ==
    [exc |-> exc, value |-> value, err |-> err, calls |-> cs, log |-> lg]

\* the same outcome with lines logged before and after it
Logged(before, o, after) == [o EXCEPT !.log = before \o o.log \o after]

run_git_command(cmd, r) ==
    LET executing == <<Info(<<"Executing:", "git">> \o cmd)>>
        streams ==
            (IF r.stdout # <<>> THEN <<Info(<<"STDOUT:">> \o Strip(r.stdout))>> ELSE <<>>)
            \o (IF r.stderr # <<>> THEN <<Warn(<<"STDERR:">> \o Strip(r.stderr))>> ELSE <<>>)
            \o <<Info(<<"Return code:", ToString(r.returncode)>>)>>
    IN  IF ~r.found
        THEN Outcome("SystemExit", None, NoResp, <<[cmd |-> cmd, resp |-> r]>>,
                     executing \o <<Error(<<"Git not found in PATH">>)>>)
        ELSE IF r.returncode # 0
        THEN Outcome("CalledProcessError", None, r, <<[cmd |-> cmd, resp |-> r]>>,
                     executing \o streams
                     \o <<Error(<<"Command failed:", ToString(r.returncode)>>),
                          Error(<<"Error output:">> \o r.stderr)>>)
        ELSE Outcome("none", CompletedProcess(r), NoResp, <<[cmd |-> cmd, resp |-> r]>>, executing \o streams)

(***************************************************************************)
(* The step functions.  Each takes git's response to every invocation it   *)
(* can make.                                                               *)
(***************************************************************************)
check_git_status(r) ==
    LET run == run_git_command(<<"status", "--porcelain">>, r)
        files == IF Strip(r.stdout) # <<>> THEN Split(Strip(r.stdout), "\n") ELSE <<>>
    IN  IF run.exc # "none"
        THEN Logged(<<Info(<<"Checking git status...">>)>>, run, <<>>)
        ELSE Logged(<<Info(<<"Checking git status...">>)>>,
                    [run EXCEPT !.value = List(files)],
                    <<Info(<<"Found", ToString(Len(files)), "changed files">>)>>)

check_git_repo(r) ==
    LET run == run_git_command(<<"rev-parse", "--git-dir">>, r)
        before == <<Info(<<"Verifying git repository...">>)>>
    IN  CASE run.exc = "none" ->
                Logged(before, [run EXCEPT !.value = Bool(TRUE)],
                       <<Info(<<"Valid git repository confirmed">>)>>)
          [] run.exc = "CalledProcessError" ->
                Logged(before, [run EXCEPT !.exc = "none", !.value = Bool(FALSE), !.err = NoResp],
                       <<Error(<<"Not a git repository">>)>>)
          [] OTHER -> Logged(before, run, <<>>)

git_add_all(r) ==
    LET run == run_git_command(<<"add", ".">>, r)
        before == <<Info(<<"Adding all files to staging...">>)>>
    IN  IF run.exc # "none"
        THEN Logged(before, run, <<>>)
        ELSE Logged(before, run, <<Info(<<"Files added to staging area">>)>>)

\* the phrase looked for in both captured streams
IsNothingToCommit_AnyStream(e) ==
    Contains(NothingToCommit, e.stderr) \/ Contains(NothingToCommit, e.stdout)

\* line 71: the failure is benign when the phrase is in its standard error
IsNothingToCommit(e) == Contains(NothingToCommit, e.stderr)

\* the special case of lines 71-73 left out: every failed commit is raised
git_commit_AlwaysRaises(message, r) ==
    LET run == run_git_command(<<"commit", "-m", message>>, r)
        before == <<Info(<<"Committing with message:", message>>)>>
    IN  IF run.exc = "none"
        THEN Logged(before, run, <<Info(<<"Commit successful">>)>>)
        ELSE Logged(before, run, <<>>)

git_commit(message, r) ==
    LET run == run_git_command(<<"commit", "-m", message>>, r)
        before == <<Info(<<"Committing with message:", message>>)>>
    IN  CASE run.exc = "none" ->
                Logged(before, run, <<Info(<<"Commit successful">>)>>)
          [] run.exc = "CalledProcessError" /\ IsNothingToCommit(run.err) ->
                Logged(before, [run EXCEPT !.exc = "none", !.value = None, !.err = NoResp],
                       <<Warn(<<"Nothing to commit, working tree clean">>)>>)
          [] OTHER -> Logged(before, run, <<>>)

\* a failed branch query swallowed: the push is issued with an empty branch
git_push_IgnoresQueryFailure(remote, branch, r1, r2) ==
    LET query == run_git_command(<<"branch", "--show-current">>, r1)
        detected == IF query.exc = "none" THEN Strip(r1.stdout) ELSE <<>>
        run == run_git_command(<<"push", remote, detected>>, r2)
        pushing == <<Info(<<"Pushing to", remote, "/">> \o detected)>>
        push == IF run.exc # "none"
                THEN Logged(pushing, run, <<>>)
                ELSE Logged(pushing, run, <<Info(<<"Push successful">>)>>)
    IN  IF query.exc = "SystemExit" THEN query
        ELSE [push EXCEPT !.calls = query.calls \o push.calls,
                          !.log = query.log \o push.log]

\* branch = <<>> stands for None and for the empty string: `not branch` holds of both
git_push(remote, branch, r1, r2) ==
    LET query == run_git_command(<<"branch", "--show-current">>, r1)
        detected == IF branch = <<>> THEN Strip(r1.stdout) ELSE branch
        run == run_git_command(<<"push", remote, detected>>, r2)
        pushing == <<Info(<<"Pushing to", remote, "/">> \o detected)>>
        push == IF run.exc # "none"
                THEN Logged(pushing, run, <<>>)
                ELSE Logged(pushing, run, <<Info(<<"Push successful">>)>>)
    IN  IF branch # <<>> THEN push
        ELSE IF query.exc # "none" THEN query
        ELSE [push EXCEPT !.calls = query.calls \o push.calls,
                          !.log = query.log \o push.log]

\* line 88: the first characters kept of the trimmed output
HashLen == 8

\* the slice of line 88 left out
get_commit_hash_NoSlice(r) ==
    LET run == run_git_command(<<"rev-parse", "HEAD">>, r)
        commit_hash == Strip(r.stdout)
    IN  IF run.exc # "none" THEN run
        ELSE Logged(<<>>, [run EXCEPT !.value = Str(commit_hash)],
                    <<Info(<<"Latest commit:">> \o commit_hash)>>)

\* the strip() of line 88 left out
get_commit_hash_NoStrip(r) ==
    LET run == run_git_command(<<"rev-parse", "HEAD">>, r)
        commit_hash == Take(r.stdout, HashLen)
    IN  IF run.exc # "none" THEN run
        ELSE Logged(<<>>, [run EXCEPT !.value = Str(commit_hash)],
                    <<Info(<<"Latest commit:">> \o commit_hash)>>)

get_commit_hash(r) ==
    LET run == run_git_command(<<"rev-parse", "HEAD">>, r)
        commit_hash == Take(Strip(r.stdout), HashLen)
    IN  IF run.exc # "none" THEN run
        ELSE Logged(<<>>, [run EXCEPT !.value = Str(commit_hash)],
                    <<Info(<<"Latest commit:">> \o commit_hash)>>)

\* the handler of lines 98-100 left out: the failure reaches the loop
validate_remote_connection_Raises(remote, r) ==
    Logged(<<Info(<<"Validating remote connection...", remote>>)>>,
           run_git_command(<<"ls-remote", remote, "--exit-code">>, r), <<>>)

validate_remote_connection(remote, r) ==
    LET run == run_git_command(<<"ls-remote", remote, "--exit-code">>, r)
        before == <<Info(<<"Validating remote connection...", remote>>)>>
    IN  CASE run.exc = "none" ->
                Logged(before, [run EXCEPT !.value = Bool(TRUE)],
                       <<Info(<<"Remote connection validated">>)>>)
          [] run.exc = "CalledProcessError" ->
                Logged(before, [run EXCEPT !.exc = "none", !.value = Bool(FALSE), !.err = NoResp],
                       <<Error(<<"Cannot connect to remote", remote>>)>>)
          [] OTHER -> Logged(before, run, <<>>)

(***************************************************************************)
(* auto_git_workflow                                                       *)
(***************************************************************************)
\* the arguments __main__ passes (line 165) and the default remote (line 102)
commit_message == "Add new files and changes"
remote == "origin"

\* the labels of workflow_steps, in order (lines 105-113)
workflow_steps ==
    <<"Repository validation", "Status check", "Remote validation", "Add files",
      "Commit changes", "Push changes", "Get final commit">>

\* the assignment of line 136 left out: a failed step leaves no entry
Put_SkipNone(d, key, value) ==
    IF value.kind = "None" THEN d ELSE Append(d, [key |-> key, value |-> value])

\* results[key] = value on an insertion-ordered dict
Put(d, key, value) ==
    IF \E i \in 1..Len(d) : d[i].key = key
    THEN [i \in 1..Len(d) |-> IF d[i].key = key THEN [key |-> key, value |-> value] ELSE d[i]]
    ELSE Append(d, [key |-> key, value |-> value])

Keys(d) == [i \in 1..Len(d) |-> d[i].key]
HasKey(d, key) == \E i \in 1..Len(d) : d[i].key = key
Get(d, key) == d[CHOOSE i \in 1..Len(d) : d[i].key = key].value

\* the test of the step name of line 123 left out: any falsy result aborts
RepoGate_AnyFalsy(step_name, result) == ~Truthy(result)

\* the gate of line 123 left out
RepoGate_Never(step_name, result) == FALSE

\* line 123
RepoGate(step_name, result) == step_name = "Repository validation" /\ ~Truthy(result)

\* the gate of line 127 left out
RemoteGate_Never(step_name, result) == FALSE

\* line 127
RemoteGate(step_name, result) == step_name = "Remote validation" /\ ~Truthy(result)

\* line 131
NoChanges(step_name, result) == step_name = "Status check" /\ ~Truthy(result)

\* "Commit changes" missing from the list of line 137
CriticalSteps_NoCommit == {"Add files", "Push changes"}

\* every step treated as critical
CriticalSteps_All ==
    {"Repository validation", "Status check", "Remote validation", "Add files",
     "Commit changes", "Push changes", "Get final commit"}

\* line 137
CriticalSteps == {"Add files", "Commit changes", "Push changes"}

\* a handler that also catches BaseException (a bare `except:`)
CaughtByStepHandler_BaseException(exc) == exc \in {"CalledProcessError", "SystemExit"}

\* a handler that does not catch the tool's failure
CaughtByStepHandler_Nothing(exc) == FALSE

\* line 134: `except Exception` catches CalledProcessError; SystemExit is a
\* BaseException and passes through
CaughtByStepHandler(exc) == exc = "CalledProcessError"

\* line 141 left out
Completed_Missing == <<>>

Completed == <<Info(<<"Git workflow completed">>)>>

\* a failed step outside the critical list is run a second time
RunStep_RetriesOnce(step_name, o) ==
    LET lg == log \o <<Info(<<"Step:", step_name>>)>> \o o.log
        is_last == step_i = Len(workflow_steps)
    IN  /\ invoked' = Append(invoked, step_name)
        /\ calls' = calls \o o.calls
        /\ last' = o.calls[Len(o.calls)].resp
        /\ dbg_i' = dbg_i
        /\ CASE o.exc = "none" ->
                  /\ results' = Put(results, step_name, o.value)
                  /\ CASE RepoGate(step_name, o.value) ->
                            /\ log' = lg \o <<Error(<<"Workflow aborted: Not a git repository">>)>>
                            /\ pc' = "AbortedNoRepo"
                            /\ exit_status' = 0
                            /\ step_i' = step_i
                       [] RemoteGate(step_name, o.value) ->
                            /\ log' = lg \o <<Error(<<"Workflow aborted: Remote connection failed">>)>>
                            /\ pc' = "AbortedNoRemote"
                            /\ exit_status' = 0
                            /\ step_i' = step_i
                       [] OTHER ->
                            /\ log' = lg
                                 \o (IF NoChanges(step_name, o.value)
                                     THEN <<Warn(<<"No changes detected">>)>> ELSE <<>>)
                                 \o (IF is_last THEN Completed ELSE <<>>)
                            /\ pc' = IF is_last THEN "Done" ELSE "workflow"
                            /\ exit_status' = IF is_last THEN 0 ELSE exit_status
                            /\ step_i' = step_i + 1
            [] CaughtByStepHandler(o.exc) ->
                  /\ results' = Put(results, step_name, None)
                  /\ IF step_name \in CriticalSteps
                     THEN /\ log' = lg \o <<Error(<<"Step", step_name, "failed:", o.exc>>),
                                           Error(<<"Workflow aborted due to critical error">>)>>
                                       \o Completed
                          /\ pc' = "AbortedCriticalFailure"
                          /\ exit_status' = 0
                          /\ step_i' = step_i
                     ELSE IF \A i \in 1..Len(invoked) : invoked[i] # step_name
                     THEN /\ log' = lg \o <<Error(<<"Step", step_name, "failed:", o.exc>>)>>
                          /\ pc' = "workflow"
                          /\ exit_status' = exit_status
                          /\ step_i' = step_i
                     ELSE /\ log' = lg \o <<Error(<<"Step", step_name, "failed:", o.exc>>)>>
                                       \o (IF is_last THEN Completed ELSE <<>>)
                          /\ pc' = IF is_last THEN "Done" ELSE "workflow"
                          /\ exit_status' = IF is_last THEN 0 ELSE exit_status
                          /\ step_i' = step_i + 1
            [] OTHER ->
                  \* sys.exit(1) unwinds the loop and the process
                  /\ results' = results
                  /\ log' = lg
                  /\ pc' = "Exited"
                  /\ exit_status' = 1
                  /\ step_i' = step_i

\* one iteration of the loop (lines 117-139) for the step step_name whose
\* function ended with outcome o, with what follows the loop (lines 141-142)
\* when the iteration is the last one
RunStep(step_name, o) ==
    LET lg == log \o <<Info(<<"Step:", step_name>>)>> \o o.log
        is_last == step_i = Len(workflow_steps)
    IN  /\ invoked' = Append(invoked, step_name)
        /\ calls' = calls \o o.calls
        /\ last' = o.calls[Len(o.calls)].resp
        /\ dbg_i' = dbg_i
        /\ CASE o.exc = "none" ->
                  /\ results' = Put(results, step_name, o.value)
                  /\ CASE RepoGate(step_name, o.value) ->
                            /\ log' = lg \o <<Error(<<"Workflow aborted: Not a git repository">>)>>
                            /\ pc' = "AbortedNoRepo"
                            /\ exit_status' = 0
                            /\ step_i' = step_i
                       [] RemoteGate(step_name, o.value) ->
                            /\ log' = lg \o <<Error(<<"Workflow aborted: Remote connection failed">>)>>
                            /\ pc' = "AbortedNoRemote"
                            /\ exit_status' = 0
                            /\ step_i' = step_i
                       [] OTHER ->
                            /\ log' = lg
                                 \o (IF NoChanges(step_name, o.value)
                                     THEN <<Warn(<<"No changes detected">>)>> ELSE <<>>)
                                 \o (IF is_last THEN Completed ELSE <<>>)
                            /\ pc' = IF is_last THEN "Done" ELSE "workflow"
                            /\ exit_status' = IF is_last THEN 0 ELSE exit_status
                            /\ step_i' = step_i + 1
            [] CaughtByStepHandler(o.exc) ->
                  /\ results' = Put(results, step_name, None)
                  /\ IF step_name \in CriticalSteps
                     THEN /\ log' = lg \o <<Error(<<"Step", step_name, "failed:", o.exc>>),
                                           Error(<<"Workflow aborted due to critical error">>)>>
                                       \o Completed
                          /\ pc' = "AbortedCriticalFailure"
                          /\ exit_status' = 0
                          /\ step_i' = step_i
                     ELSE /\ log' = lg \o <<Error(<<"Step", step_name, "failed:", o.exc>>)>>
                                       \o (IF is_last THEN Completed ELSE <<>>)
                          /\ pc' = IF is_last THEN "Done" ELSE "workflow"
                          /\ exit_status' = IF is_last THEN 0 ELSE exit_status
                          /\ step_i' = step_i + 1
            [] OTHER ->
                  \* sys.exit(1) unwinds the loop and the process
                  /\ results' = results
                  /\ log' = lg
                  /\ pc' = "Exited"
                  /\ exit_status' = 1
                  /\ step_i' = step_i

AtStep(step_name) ==
    pc = "workflow" /\ step_i \in 1..Len(workflow_steps) /\ workflow_steps[step_i] = step_name

RepositoryValidation ==
    /\ AtStep("Repository validation")
    /\ \E r \in Responses(<<"rev-parse", "--git-dir">>) :
          RunStep("Repository validation", check_git_repo(r))

StatusCheck ==
    /\ AtStep("Status check")
    /\ \E r \in Responses(<<"status", "--porcelain">>) :
          RunStep("Status check", check_git_status(r))

RemoteValidation ==
    /\ AtStep("Remote validation")
    /\ \E r \in Responses(<<"ls-remote", remote, "--exit-code">>) :
          RunStep("Remote validation", validate_remote_connection(remote, r))

AddFiles ==
    /\ AtStep("Add files")
    /\ \E r \in Responses(<<"add", ".">>) :
          RunStep("Add files", git_add_all(r))

CommitChanges ==
    /\ AtStep("Commit changes")
    /\ \E r \in Responses(<<"commit", "-m", commit_message>>) :
          RunStep("Commit changes", git_commit(commit_message, r))

PushChanges ==
    /\ AtStep("Push changes")
    /\ \E r1 \in Responses(<<"branch", "--show-current">>) :
       \E r2 \in Responses(<<"push", remote>>) :
          RunStep("Push changes", git_push(remote, <<>>, r1, r2))

GetFinalCommit ==
    /\ AtStep("Get final commit")
    /\ \E r \in Responses(<<"rev-parse", "HEAD">>) :
          RunStep("Get final commit", get_commit_hash(r))

(***************************************************************************)
(* debug_git_environment                                                   *)
(***************************************************************************)
debug_commands ==
    <<[cmd |-> <<"--version">>, description |-> "Git version"],
      [cmd |-> <<"config", "--get", "user.name">>, description |-> "User name"],
      [cmd |-> <<"config", "--get", "user.email">>, description |-> "User email"],
      [cmd |-> <<"remote", "-v">>, description |-> "Remote repositories"],
      [cmd |-> <<"branch", "-a">>, description |-> "All branches"],
      [cmd |-> <<"log", "--oneline", "-5">>, description |-> "Recent commits"] >>

\* str.lower() of the descriptions of debug_commands (line 161)
Lower(description) ==
    CASE description = "Git version" -> "git version"
      [] description = "User name" -> "user name"
      [] description = "User email" -> "user email"
      [] description = "Remote repositories" -> "remote repositories"
      [] description = "All branches" -> "all branches"
      [] description = "Recent commits" -> "recent commits"

\* the handler of lines 160-161 left out
CaughtByReporter_Nothing(exc) == FALSE

\* line 160: the reporter's handler catches CalledProcessError only
CaughtByReporter(exc) == exc = "CalledProcessError"

\* one iteration of the loop of debug_git_environment (lines 156-161); after
\* the last one __main__ enters auto_git_workflow (line 103)
DebugCommand ==
    /\ pc = "debug"
    /\ dbg_i \in 1..Len(debug_commands)
    /\ \E r \in Responses(debug_commands[dbg_i].cmd) :
          LET d == debug_commands[dbg_i]
              o == run_git_command(d.cmd, r)
              lg == log \o <<Info(<<"Checking:", d.description>>)>> \o o.log
              is_last == dbg_i = Len(debug_commands)
              starting == IF is_last
                          THEN <<Info(<<"Starting automated git workflow...">>)>> ELSE <<>>
          IN  /\ calls' = calls \o o.calls
              /\ last' = r
              /\ UNCHANGED <<results, invoked, step_i>>
              /\ CASE o.exc = "none" ->
                        /\ log' = lg \o starting
                        /\ dbg_i' = dbg_i + 1
                        /\ pc' = IF is_last THEN "workflow" ELSE "debug"
                        /\ exit_status' = exit_status
                   [] CaughtByReporter(o.exc) ->
                        /\ log' = lg \o <<Warn(<<"Could not get", Lower(d.description)>>)>> \o starting
                        /\ dbg_i' = dbg_i + 1
                        /\ pc' = IF is_last THEN "workflow" ELSE "debug"
                        /\ exit_status' = exit_status
                   [] OTHER ->
                        /\ log' = lg
                        /\ dbg_i' = dbg_i
                        /\ pc' = "Exited"
                        /\ exit_status' = 1

(***************************************************************************)
(* The process: __main__ (lines 163-165)                                   *)
(***************************************************************************)
Init ==
    /\ pc = "debug"
    /\ dbg_i = 1
    /\ step_i = 1
    /\ results = <<>>
    /\ invoked = <<>>
    /\ calls = <<>>
    /\ log = <<Info(<<"=== Git Environment Debug Info ===">>)>>
    /\ last = NoResp
    /\ exit_status = -1

Next ==
    \/ DebugCommand
    \/ RepositoryValidation
    \/ StatusCheck
    \/ RemoteValidation
    \/ AddFiles
    \/ CommitChanges
    \/ PushChanges
    \/ GetFinalCommit

Spec == Init /\ [][Next]_vars

Terminal == {"Done", "AbortedNoRepo", "AbortedNoRemote", "AbortedCriticalFailure", "Exited"}

TypeOK ==
    /\ pc \in {"debug", "workflow"} \cup Terminal
    /\ dbg_i \in 1..(Len(debug_commands) + 1)
    /\ step_i \in 1..(Len(workflow_steps) + 1)
    /\ exit_status \in {-1, 0, 1}
    /\ (pc \in Terminal) = (exit_status # -1)

(***************************************************************************)
(* Vocabulary of the properties                                            *)
(***************************************************************************)
\* the invocations made by auto_git_workflow (those after the six diagnostics)
WorkflowCalls == SubSeq(calls, Len(debug_commands) + 1, Len(calls))

IsRevParseGitDir(c) == c.cmd[1] = "rev-parse" /\ c.cmd[2] = "--git-dir"
IsRevParseHead(c) == c.cmd[1] = "rev-parse" /\ c.cmd[2] = "HEAD"
IsBranchQuery(c) == c.cmd[1] = "branch" /\ c.cmd[2] = "--show-current"
IsLsRemote(c) == c.cmd[1] = "ls-remote"
IsMutating(c) == c.cmd[1] \in {"add", "commit", "push"}

ExitedNonZero(c) == c.resp.found /\ c.resp.returncode # 0
ExitedZero(c) == c.resp.found /\ c.resp.returncode = 0

InSeq(x, seq) == \E i \in 1..Len(seq) : seq[i] = x
Prefix(seq, n) == SubSeq(seq, 1, n)

RepoValidationFailed ==
    \E i \in 1..Len(calls) : IsRevParseGitDir(calls[i]) /\ ExitedNonZero(calls[i])

RemoteValidationFailed ==
    \E i \in 1..Len(calls) : IsLsRemote(calls[i]) /\ ExitedNonZero(calls[i])

(***************************************************************************)
(* C1: if `rev-parse --git-dir` exits non-zero, no step function other     *)
(* than "Repository validation" is ever invoked in the run, no later       *)
(* invocation of the tool is made, and the mapping returned holds at most  *)
(* the single entry "Repository validation".                               *)
(***************************************************************************)
C1_RepoFailureStopsWorkflow ==
    RepoValidationFailed =>
        /\ invoked = <<"Repository validation">>
        /\ Len(WorkflowCalls) = 1
        /\ Len(results) <= 1
        /\ \A i \in 1..Len(results) : results[i].key = "Repository validation"
        /\ pc = "AbortedNoRepo"

C1_Witness ==
    /\ RepoValidationFailed
    /\ pc = "AbortedNoRepo"
    /\ results = <<[key |-> "Repository validation", value |-> Bool(FALSE)]>>

(***************************************************************************)
(* C2: if `ls-remote` exits non-zero, none of "Add files", "Commit         *)
(* changes", "Push changes", "Get final commit" is invoked and no add,     *)
(* commit, push, branch query or rev-parse HEAD is issued; and every add,  *)
(* commit or push invocation comes after a successful rev-parse --git-dir  *)
(* and a successful ls-remote.                                             *)
(***************************************************************************)
C2_RemoteFailureBlocksMutation ==
    /\ RemoteValidationFailed =>
          /\ \A i \in 1..Len(invoked) :
                invoked[i] \notin {"Add files", "Commit changes", "Push changes",
                                   "Get final commit"}
          /\ \A i \in 1..Len(calls) :
                ~(IsMutating(calls[i]) \/ IsBranchQuery(calls[i]) \/ IsRevParseHead(calls[i]))
    /\ \A i \in 1..Len(calls) :
          IsMutating(calls[i]) =>
              /\ \E j \in 1..(i - 1) : IsRevParseGitDir(calls[j]) /\ ExitedZero(calls[j])
              /\ \E j \in 1..(i - 1) : IsLsRemote(calls[j]) /\ ExitedZero(calls[j])

C2_Witness ==
    /\ RemoteValidationFailed
    /\ invoked = <<"Repository validation", "Status check", "Remote validation">>
    /\ IsLsRemote(calls[Len(calls)])

(***************************************************************************)
(* C3 as stated: when the remote is unreachable the mapping returned has   *)
(* only the keys "Repository validation" and "Remote validation".          *)
(***************************************************************************)
C3_Original ==
    (pc = "AbortedNoRemote" /\ RemoteValidationFailed) =>
        /\ Keys(results) = <<"Repository validation", "Remote validation">>
        /\ Get(results, "Remote validation") = Bool(FALSE)

(***************************************************************************)
(* C3 amended: when the remote is unreachable (repository validation       *)
(* succeeds, ls-remote exits non-zero) the workflow's last log line is the *)
(* error "Workflow aborted: Remote connection failed" and the mapping      *)
(* returned has exactly the keys "Repository validation", "Status check"   *)
(* and "Remote validation", in that order, the first mapped to true and    *)
(* the last to false, and no later key.                                    *)
(***************************************************************************)
C3_RemoteUnreachableMapping ==
    RemoteValidationFailed =>
        /\ pc = "AbortedNoRemote"
        /\ exit_status = 0
        /\ Keys(results) = <<"Repository validation", "Status check", "Remote validation">>
        /\ Get(results, "Repository validation") = Bool(TRUE)
        /\ Get(results, "Remote validation") = Bool(FALSE)
        /\ log[Len(log)] = Error(<<"Workflow aborted: Remote connection failed">>)
        /\ log[Len(log) - 1] = Error(<<"Cannot connect to remote", remote>>)

C3_Witness ==
    /\ pc = "AbortedNoRemote"
    /\ Len(results) = 3
    /\ results[3] = [key |-> "Remote validation", value |-> Bool(FALSE)]
    /\ results[2].key = "Status check"

(***************************************************************************)
(* Failed commits                                                          *)
(***************************************************************************)
IsCommit(c) == c.cmd[1] = "commit"

\* the commit exited non-zero with the phrase in its error text
BenignCommitFailure ==
    \E i \in 1..Len(calls) :
        /\ IsCommit(calls[i]) /\ ExitedNonZero(calls[i])
        /\ Contains(NothingToCommit, calls[i].resp.stderr)

\* the commit exited non-zero without the phrase in its error text
OtherCommitFailure ==
    \E i \in 1..Len(calls) :
        /\ IsCommit(calls[i]) /\ ExitedNonZero(calls[i])
        /\ ~Contains(NothingToCommit, calls[i].resp.stderr)

CriticalAbortLine == Error(<<"Workflow aborted due to critical error">>)

(***************************************************************************)
(* C4: if the commit fails with error text containing "nothing to commit", *)
(* "Commit changes" is recorded as None, the run is not aborted at that    *)
(* step (no critical-abort line is logged for it), and the step invoked    *)
(* next is "Push changes".                                                 *)
(***************************************************************************)
C4_NothingToCommitContinues ==
    BenignCommitFailure =>
        /\ Get(results, "Commit changes") = None
        /\ Prefix(invoked, 5) = Prefix(workflow_steps, 5)
        /\ \/ Len(invoked) = 5 /\ pc = "workflow" /\ step_i = 6
                /\ ENABLED PushChanges
                /\ ~InSeq(CriticalAbortLine, log)
           \/ Len(invoked) >= 6 /\ invoked[6] = "Push changes"
                /\ \E i \in 1..Len(calls) : IsBranchQuery(calls[i])

C4_Witness ==
    /\ BenignCommitFailure
    /\ InSeq("Push changes", invoked)
    /\ InSeq(Warn(<<"Nothing to commit, working tree clean">>), log)

(***************************************************************************)
(* C5: if the commit fails with error text that does not contain "nothing  *)
(* to commit", the workflow aborts: "Commit changes" is recorded as None   *)
(* and neither "Push changes" nor "Get final commit" is invoked or present *)
(* in the mapping returned.                                                *)
(***************************************************************************)
C5_OtherCommitFailureAborts ==
    OtherCommitFailure =>
        /\ pc = "AbortedCriticalFailure"
        /\ Get(results, "Commit changes") = None
        /\ invoked = Prefix(workflow_steps, 5)
        /\ Keys(results) = Prefix(workflow_steps, 5)
        /\ IsCommit(calls[Len(calls)])

C5_Witness ==
    /\ OtherCommitFailure
    /\ pc = "AbortedCriticalFailure"
    /\ results[Len(results)] = [key |-> "Commit changes", value |-> None]

(***************************************************************************)
(* C6: the critical-abort terminal is reached exactly when an invocation   *)
(* of "Add files", "Commit changes" (without the benign phrase) or "Push   *)
(* changes" exits non-zero; that step is then the last one invoked, it is  *)
(* recorded as None, the critical-abort line is logged, and the failing    *)
(* invocation is the last one made.  A failure of any other step never     *)
(* leads there.                                                            *)
(***************************************************************************)
IsCriticalFailure(c) ==
    /\ ExitedNonZero(c)
    /\ \/ c.cmd[1] \in {"add", "push"}
       \/ IsBranchQuery(c)
       \/ IsCommit(c) /\ ~Contains(NothingToCommit, c.resp.stderr)

C6_CriticalAbortExactly ==
    /\ (pc = "AbortedCriticalFailure") = (\E i \in 1..Len(calls) : IsCriticalFailure(calls[i]))
    /\ pc = "AbortedCriticalFailure" =>
          /\ IsCriticalFailure(calls[Len(calls)])
          /\ invoked[Len(invoked)] \in {"Add files", "Commit changes", "Push changes"}
          /\ Keys(results) = invoked
          /\ results[Len(results)].value = None
          /\ log[Len(log) - 1] = CriticalAbortLine
    /\ InSeq(CriticalAbortLine, log) => pc = "AbortedCriticalFailure"

C6_Witness ==
    /\ pc = "AbortedCriticalFailure"
    /\ invoked[Len(invoked)] = "Push changes"
    /\ calls[Len(calls)].cmd[1] = "push"
    /\ \E i \in 1..Len(results) : results[i].key = "Status check" /\ results[i].value = None

(***************************************************************************)
(* C7: if the tool binary is not found at an invocation, the process ends  *)
(* at once with status 1: that invocation is the last one, the last log    *)
(* line is "Git not found in PATH" (neither the step handler nor the       *)
(* reporter's handler logged or recorded anything for it), and no mapping  *)
(* is returned.                                                            *)
(***************************************************************************)
ToolMissing == \E i \in 1..Len(calls) : ~calls[i].resp.found

C7_ToolNotFoundExits ==
    ToolMissing =>
        /\ pc = "Exited"
        /\ exit_status = 1
        /\ \A i \in 1..Len(calls) : ~calls[i].resp.found => i = Len(calls)
        /\ log[Len(log)] = Error(<<"Git not found in PATH">>)
        /\ Len(results) = IF invoked = <<>> THEN 0 ELSE Len(invoked) - 1
        /\ \A i \in 1..Len(results) : results[i].key # invoked[Len(invoked)]

C7_Witness ==
    /\ pc = "Exited"
    /\ exit_status = 1
    /\ Len(invoked) = 6
    /\ invoked[6] = "Push changes"
    /\ IsBranchQuery(calls[Len(calls)])
    /\ ~calls[Len(calls)].resp.found

\* the same in the Environment Reporter and in a plain workflow step
C7_WitnessReporter ==
    /\ pc = "Exited"
    /\ Len(calls) = 3
    /\ ~calls[3].resp.found

C7_WitnessStep ==
    /\ pc = "Exited"
    /\ invoked = <<"Repository validation">>
    /\ ~calls[Len(calls)].resp.found

(***************************************************************************)
(* C8: if every invocation finds the tool, the process never exits with a  *)
(* non-zero status: from every position of the loop a step runs, every     *)
(* end of the run is a return of the mapping with exit status 0, and only  *)
(* a missing tool leads to the exit with status 1.                         *)
(***************************************************************************)
C8_NoFailurePropagates ==
    /\ ~ToolMissing =>
          /\ pc # "Exited"
          /\ exit_status \in {-1, 0}
          /\ pc = "workflow" => step_i \in 1..Len(workflow_steps) /\ ENABLED Next
          /\ pc \in Terminal => exit_status = 0 /\ Keys(results) = invoked /\ results # <<>>
    /\ exit_status = 1 => ToolMissing

C8_Witness ==
    /\ ~ToolMissing
    /\ pc = "Done"
    /\ exit_status = 0
    /\ Len(results) = 7
    /\ Get(results, "Status check") = None
    /\ Get(results, "Get final commit") = None

(***************************************************************************)
(* C9: on the happy path (every invocation of the workflow exits 0 and the *)
(* status lists at least one changed path) the mapping returned has        *)
(* exactly the seven step keys in the order of workflow_steps and the      *)
(* value of "Get final commit" is a string of 8 characters, each of them   *)
(* a hexadecimal digit.                                                    *)
(***************************************************************************)
HappyPath ==
    /\ pc = "Done"
    /\ \A i \in 1..Len(WorkflowCalls) : ExitedZero(WorkflowCalls[i])
    /\ \E i \in 1..Len(WorkflowCalls) :
          WorkflowCalls[i].cmd[1] = "status" /\ Strip(WorkflowCalls[i].resp.stdout) # <<>>

C9_HappyPathMapping ==
    HappyPath =>
        /\ Keys(results) =
              <<"Repository validation", "Status check", "Remote validation", "Add files",
                "Commit changes", "Push changes", "Get final commit">>
        /\ LET h == results[7].value
           IN  /\ h.kind = "str"
               /\ Len(h.chars) = 8
               /\ \A i \in 1..Len(h.chars) : InSeq(h.chars[i], Hex)

C9_Witness ==
    /\ HappyPath
    /\ Len(results) = 7
    /\ results[2].value.kind = "list"
    /\ Len(results[2].value.items) = 1
    /\ results[7].value.kind = "str"

(***************************************************************************)
(* get_commit_hash on arbitrary tool output                                *)
(*                                                                         *)
(* The run starts at the last step with, in `last`, an output of up to     *)
(* MaxLen characters that `rev-parse HEAD` printed on exit 0; the step     *)
(* applies get_commit_hash to it.                                          *)
(***************************************************************************)
Alphabet == {"a", "b", "\n"}

Outputs == UNION {[1..n -> Alphabet] : n \in 0..MaxLen}

InitHash ==
    /\ pc = "workflow"
    /\ dbg_i = Len(debug_commands) + 1
    /\ step_i = Len(workflow_steps)
    /\ results = <<>>
    /\ invoked = <<>>
    /\ calls = <<>>
    /\ log = <<>>
    /\ last \in {Resp(0, out, <<>>) : out \in Outputs}
    /\ exit_status = -1

ExtractHash ==
    /\ AtStep("Get final commit")
    /\ RunStep("Get final commit", get_commit_hash(last))

NextHash == ExtractHash

SpecHash == InitHash /\ [][NextHash]_vars

(***************************************************************************)
(* C10: whenever the output of the tool is an identifier of at least 8     *)
(* characters surrounded by any whitespace, get_commit_hash yields exactly *)
(* the first 8 characters of that identifier.                              *)
(***************************************************************************)
\* s is i whitespace characters, an identifier of at least 8 characters
\* (it starts and ends with a character that is no whitespace), and j
\* whitespace characters
IsPaddedIdentifier(s, i, j) ==
    /\ Len(s) - i - j >= 8
    /\ \A k \in 1..i : s[k] \in Whitespace
    /\ \A k \in (Len(s) - j + 1)..Len(s) : s[k] \in Whitespace
    /\ s[i + 1] \notin Whitespace
    /\ s[Len(s) - j] \notin Whitespace

C10_HashIsFirstEight ==
    pc = "Done" =>
        LET s == calls[1].resp.stdout
            h == results[1].value
        IN  \A i \in 0..Len(s) : \A j \in 0..Len(s) :
                IsPaddedIdentifier(s, i, j) =>
                    /\ results[1].key = "Get final commit"
                    /\ h.kind = "str"
                    /\ Len(h.chars) = 8
                    /\ h.chars = [k \in 1..8 |-> s[i + k]]

C10_Witness ==
    /\ pc = "Done"
    /\ LET s == calls[1].resp.stdout
       IN  /\ IsPaddedIdentifier(s, 1, 1)
           /\ Len(s) = 10
           /\ s[3] # s[2]
    /\ Len(results[1].value.chars) = 8

(***************************************************************************)
(* C11: when the status check lists no changed path, the warning "No       *)
(* changes detected" is logged and the run goes on: "Remote validation"    *)
(* is invoked next, then (the validation succeeding) "Add files", then     *)
(* (the add succeeding) "Commit changes"; when that commit fails with      *)
(* "nothing to commit" in its error text "Push changes" is invoked, and    *)
(* with the push succeeding the run ends normally with all seven keys.     *)
(***************************************************************************)
IsStatus(c) == c.cmd[1] = "status"
IsAdd(c) == c.cmd[1] = "add"
IsPush(c) == c.cmd[1] = "push"

EmptyStatus ==
    \E i \in 1..Len(calls) :
        /\ IsStatus(calls[i]) /\ ExitedZero(calls[i])
        /\ \A k \in 1..Len(calls[i].resp.stdout) : calls[i].resp.stdout[k] \in Whitespace

Succeeded(Is(_)) == \E i \in 1..Len(calls) : Is(calls[i]) /\ ExitedZero(calls[i])

\* after n step functions the loop is at step n + 1, which can run
GoesOnAfter(n) ==
    Len(invoked) = n => pc = "workflow" /\ step_i = n + 1 /\ ENABLED Next

NoChangesLine == Warn(<<"No changes detected">>)

C11_EmptyTreeContinues ==
    (EmptyStatus /\ ~ToolMissing) =>
        /\ Get(results, "Status check") = List(<<>>)
        /\ InSeq(NoChangesLine, log)
        /\ Prefix(invoked, 2) = <<"Repository validation", "Status check">>
        /\ GoesOnAfter(2)
        /\ Len(invoked) >= 3 => invoked[3] = "Remote validation"
        /\ Succeeded(IsLsRemote) =>
              /\ GoesOnAfter(3)
              /\ Len(invoked) >= 4 => invoked[4] = "Add files"
        /\ (Succeeded(IsLsRemote) /\ Succeeded(IsAdd)) =>
              /\ GoesOnAfter(4)
              /\ Len(invoked) >= 5 => invoked[5] = "Commit changes"
        /\ (Succeeded(IsLsRemote) /\ Succeeded(IsAdd) /\ BenignCommitFailure) =>
              /\ GoesOnAfter(5)
              /\ Len(invoked) >= 6 => invoked[6] = "Push changes"
              /\ (Succeeded(IsBranchQuery) /\ Succeeded(IsPush)) =>
                    /\ GoesOnAfter(6)
                    /\ pc \in Terminal =>
                          /\ pc = "Done"
                          /\ Len(results) = 7
                          /\ log[Len(log)] = Info(<<"Git workflow completed">>)

C11_Witness ==
    /\ EmptyStatus
    /\ BenignCommitFailure
    /\ Succeeded(IsPush)
    /\ pc = "Done"
    /\ InSeq(NoChangesLine, log)
    /\ Len(results) = 7

(***************************************************************************)
(* C12: provided the tool binary exists, the Environment Reporter invokes  *)
(* its six diagnostics once each, in the order of debug_commands, whatever *)
(* their exit statuses; a diagnostic that exits non-zero is logged as one  *)
(* warning naming it, a diagnostic that exits 0 as none, and the           *)
(* diagnostics after it still run.                                         *)
(***************************************************************************)
IsDiagnostic(c) ==
    \/ c.cmd[1] \in {"--version", "config", "remote", "log"}
    \/ c.cmd[1] = "branch" /\ c.cmd[2] = "-a"

Count(x, seq) == Cardinality({i \in 1..Len(seq) : seq[i] = x})

DiagnosticNames ==
    <<"git version", "user name", "user email", "remote repositories", "all branches",
      "recent commits">>

DiagnosticCmds ==
    <<<<"--version">>, <<"config", "--get", "user.name">>, <<"config", "--get", "user.email">>,
      <<"remote", "-v">>, <<"branch", "-a">>, <<"log", "--oneline", "-5">>>>

ReporterToolMissing == \E i \in 1..Len(calls) : i <= 6 /\ ~calls[i].resp.found

C12_ReporterRunsAllDiagnostics ==
    ~ReporterToolMissing =>
        /\ pc = "debug" => Len(calls) = dbg_i - 1 /\ dbg_i <= 6 /\ ENABLED DebugCommand
        /\ pc # "debug" => Len(calls) >= 6
        /\ \A i \in 1..Len(calls) :
              IF i <= 6
              THEN /\ calls[i].cmd = DiagnosticCmds[i]
                   /\ Count(Warn(<<"Could not get", DiagnosticNames[i]>>), log)
                         = IF ExitedNonZero(calls[i]) THEN 1 ELSE 0
              ELSE ~IsDiagnostic(calls[i])

C12_Witness ==
    /\ pc = "workflow"
    /\ Len(calls) = 6
    /\ ExitedNonZero(calls[2])
    /\ ExitedNonZero(calls[5])
    /\ ExitedZero(calls[6])
    /\ InSeq(Warn(<<"Could not get", "all branches">>), log)

(***************************************************************************)
(* C13: "Push changes" issues the branch query first and the push only     *)
(* after it exited 0, with the remote and the branch the query printed; if *)
(* the branch query exits non-zero no push is issued; if the branch query  *)
(* or the push exits non-zero, "Push changes" is recorded as None, the     *)
(* critical abort is taken and "Get final commit" is not invoked.          *)
(***************************************************************************)
\* out is the name followed by the newline git prints, or both are empty
PrintedAs(name, out) == out = IF name = <<>> THEN <<>> ELSE name \o <<"\n">>

PushStepAborted ==
    /\ pc = "AbortedCriticalFailure"
    /\ invoked = <<"Repository validation", "Status check", "Remote validation",
                   "Add files", "Commit changes", "Push changes">>
    /\ Len(results) = 6
    /\ results[6] = [key |-> "Push changes", value |-> None]
    /\ \A i \in 1..Len(calls) : ~IsRevParseHead(calls[i])
    /\ InSeq(CriticalAbortLine, log)

C13_PushQueriesBranchFirst ==
    /\ \A i \in 1..Len(calls) :
          IsPush(calls[i]) =>
              /\ i > 1
              /\ IsBranchQuery(calls[i - 1])
              /\ ExitedZero(calls[i - 1])
              /\ calls[i].cmd[2] = "origin"
              /\ PrintedAs(calls[i].cmd[3], calls[i - 1].resp.stdout)
              /\ Len(calls[i].cmd) = 3
    /\ \A i \in 1..Len(calls) :
          IsBranchQuery(calls[i]) =>
              /\ invoked[Len(invoked)] \in {"Push changes", "Get final commit"}
              /\ \A j \in 1..Len(calls) : IsBranchQuery(calls[j]) => j = i
              /\ ExitedZero(calls[i]) => Len(calls) > i /\ IsPush(calls[i + 1])
              /\ ExitedNonZero(calls[i]) =>
                    /\ i = Len(calls)
                    /\ PushStepAborted
    /\ \A i \in 1..Len(calls) :
          (IsPush(calls[i]) /\ ExitedNonZero(calls[i])) =>
              /\ i = Len(calls)
              /\ PushStepAborted

C13_Witness ==
    /\ pc = "AbortedCriticalFailure"
    /\ Len(invoked) = 6
    /\ IsBranchQuery(calls[Len(calls)])
    /\ ExitedNonZero(calls[Len(calls)])
    /\ \A i \in 1..Len(calls) : ~IsPush(calls[i])

\* a push issued with the detected branch
C13_WitnessPushed ==
    /\ pc = "Done"
    /\ \E i \in 1..Len(calls) : IsPush(calls[i]) /\ calls[i].cmd[3] = <<"m", "a", "i", "n">>

(***************************************************************************)
(* C14: a failure outside the critical set does not end the loop: if the   *)
(* status invocation exits non-zero, "Status check" is recorded as None    *)
(* and "Remote validation" is invoked next; if `rev-parse HEAD` exits      *)
(* non-zero, "Get final commit" is recorded as None and the run ends       *)
(* normally with all seven keys and no critical-abort line.                *)
(***************************************************************************)
StatusFailed == \E i \in 1..Len(calls) : IsStatus(calls[i]) /\ ExitedNonZero(calls[i])

FinalCommitFailed == \E i \in 1..Len(calls) : IsRevParseHead(calls[i]) /\ ExitedNonZero(calls[i])

C14_NonCriticalFailureContinues ==
    /\ StatusFailed =>
          /\ Get(results, "Status check") = None
          /\ InSeq(Error(<<"Step", "Status check", "failed:", "CalledProcessError">>), log)
          /\ GoesOnAfter(2)
          /\ ENABLED RemoteValidation \/ Len(invoked) >= 3
          /\ Len(invoked) >= 3 =>
                /\ invoked[3] = "Remote validation"
                /\ \E i \in 1..Len(calls) : IsLsRemote(calls[i])
    /\ FinalCommitFailed =>
          /\ pc = "Done"
          /\ exit_status = 0
          /\ Keys(results) =
                <<"Repository validation", "Status check", "Remote validation", "Add files",
                  "Commit changes", "Push changes", "Get final commit">>
          /\ results[7].value = None
          /\ ~InSeq(CriticalAbortLine, log)
          /\ log[Len(log)] = Info(<<"Git workflow completed">>)

C14_Witness ==
    /\ StatusFailed
    /\ FinalCommitFailed
    /\ pc = "Done"
    /\ InSeq("Remote validation", invoked)
    /\ InSeq(Error(<<"Step", "Get final commit", "failed:", "CalledProcessError">>), log)

(***************************************************************************)
(* The process under its scheduling: one thread runs the steps one after   *)
(* the other and every invocation of the tool returns, so a step that can  *)
(* run does run.                                                           *)
(***************************************************************************)
FairSpec == Spec /\ WF_vars(Next)

(***************************************************************************)
(* C15: no retries: the step functions invoked are, at every point, the    *)
(* first ones of the fixed list, each once and in its order; no command of *)
(* the workflow is issued twice; after seven step executions the run has   *)
(* ended; and every run reaches a terminal state (Done, AbortedNoRepo,     *)
(* AbortedNoRemote, AbortedCriticalFailure or the process exit).           *)
(***************************************************************************)
NoRetries ==
    /\ Len(invoked) <= 7
    /\ invoked = Prefix(<<"Repository validation", "Status check", "Remote validation",
                          "Add files", "Commit changes", "Push changes", "Get final commit">>,
                        Len(invoked))
    /\ \A i \in 7..Len(calls) : \A j \in 7..Len(calls) :
          (calls[i].cmd[1] = calls[j].cmd[1] /\ calls[i].cmd[2] = calls[j].cmd[2]) => i = j
    /\ Len(WorkflowCalls) <= Len(invoked) + 1
    /\ Len(invoked) = 7 => pc \in Terminal
    /\ pc \notin Terminal => ENABLED Next

C15_NoRetriesTerminates == []NoRetries /\ <>(pc \in Terminal)

C15_Witness ==
    /\ pc = "Done"
    /\ Len(invoked) = 7
    /\ invoked[7] = "Get final commit"
    /\ Len(WorkflowCalls) = 8

(***************************************************************************)
(* C16: at every point of a run the keys of the mapping are the first      *)
(* labels of the fixed step order, without gap; a step has an entry        *)
(* exactly when its function was invoked and ended (with a result or a     *)
(* caught failure); and a step never changes or removes an entry written   *)
(* before it.                                                              *)
(***************************************************************************)
\* the steps whose function was invoked and has ended
Finished ==
    IF pc = "Exited" /\ invoked # <<>> THEN Prefix(invoked, Len(invoked) - 1) ELSE invoked

KeysArePrefix ==
    /\ Len(results) <= 7
    /\ Keys(results) =
          Prefix(<<"Repository validation", "Status check", "Remote validation", "Add files",
                   "Commit changes", "Push changes", "Get final commit">>, Len(results))
    /\ Keys(results) = Finished

EntriesKept ==
    /\ Len(results') >= Len(results)
    /\ \A i \in 1..Len(results) : results'[i] = results[i]

C16_MappingGrowsAsPrefix == []KeysArePrefix /\ [][EntriesKept]_vars

C16_Witness ==
    /\ pc = "AbortedCriticalFailure"
    /\ Len(results) = 4
    /\ results[4] = [key |-> "Add files", value |-> None]
    /\ results[2].value.kind = "list"
    /\ Keys(results) = invoked

(***************************************************************************)
(* C17: the benign classification reads only the captured standard error:  *)
(* a commit that exits non-zero with "nothing to commit" on its standard   *)
(* output and not on its standard error is a critical failure; "Commit     *)
(* changes" is recorded as None and the run is aborted before "Push        *)
(* changes".                                                               *)
(***************************************************************************)
PhraseOnStdoutOnly ==
    \E i \in 1..Len(calls) :
        /\ IsCommit(calls[i]) /\ ExitedNonZero(calls[i])
        /\ Contains(<<"n","o","t","h","i","n","g"," ","t","o"," ","c","o","m","m","i","t">>,
                    calls[i].resp.stdout)
        /\ ~Contains(<<"n","o","t","h","i","n","g"," ","t","o"," ","c","o","m","m","i","t">>,
                     calls[i].resp.stderr)

C17_OnlyStderrIsInspected ==
    PhraseOnStdoutOnly =>
        /\ pc = "AbortedCriticalFailure"
        /\ invoked = <<"Repository validation", "Status check", "Remote validation",
                       "Add files", "Commit changes">>
        /\ results[Len(results)] = [key |-> "Commit changes", value |-> None]
        /\ ~InSeq(Warn(<<"Nothing to commit, working tree clean">>), log)
        /\ InSeq(CriticalAbortLine, log)
        /\ \A i \in 1..Len(calls) : ~IsPush(calls[i]) /\ ~IsBranchQuery(calls[i])

C17_Witness ==
    /\ PhraseOnStdoutOnly
    /\ pc = "AbortedCriticalFailure"
    /\ IsCommit(calls[Len(calls)])
    /\ calls[Len(calls)].resp.stderr = <<>>

(***************************************************************************)
(* C18 as stated: "Git workflow completed" is logged in exactly the runs   *)
(* of the workflow that do not end in one of the two early-abort           *)
(* terminals.                                                              *)
(***************************************************************************)
CompletedLine == Info(<<"Git workflow completed">>)

C18_Original ==
    (pc \in Terminal /\ invoked # <<>>) =>
        (InSeq(CompletedLine, log) <=> pc \notin {"AbortedNoRepo", "AbortedNoRemote"})

(***************************************************************************)
(* C18 amended: "Git workflow completed" is logged, once and as the last   *)
(* line, in exactly the runs that end normally or in the critical abort    *)
(* (there right after "Workflow aborted due to critical error"); it is     *)
(* not logged when repository validation or remote validation fails, nor   *)
(* when the process exits because the tool is missing; and the critical-   *)
(* abort line is logged on none of these other paths.                      *)
(***************************************************************************)
C18_CompletedLineOnReturnPaths ==
    /\ InSeq(CompletedLine, log) <=> pc \in {"Done", "AbortedCriticalFailure"}
    /\ pc \in {"Done", "AbortedCriticalFailure"} =>
          /\ Count(CompletedLine, log) = 1
          /\ log[Len(log)] = CompletedLine
    /\ pc = "AbortedCriticalFailure" => log[Len(log) - 1] = CriticalAbortLine
    /\ InSeq(CriticalAbortLine, log) <=> pc = "AbortedCriticalFailure"
    /\ (RepoValidationFailed \/ RemoteValidationFailed) =>
          /\ pc \in {"AbortedNoRepo", "AbortedNoRemote"}
          /\ ~InSeq(CompletedLine, log)
          /\ ~InSeq(CriticalAbortLine, log)
    /\ pc = "AbortedNoRepo" => RepoValidationFailed
    /\ pc = "AbortedNoRemote" => RemoteValidationFailed

C18_Witness ==
    /\ pc = "AbortedCriticalFailure"
    /\ invoked[Len(invoked)] = "Add files"
    /\ log[Len(log)] = CompletedLine
    /\ log[Len(log) - 1] = CriticalAbortLine

\* the line after a normal end
C18_WitnessDone ==
    /\ pc = "Done"
    /\ log[Len(log)] = CompletedLine

====
